---- MODULE Spec2Model ----
(***************************************************************************)
(* Model of jsl-nlproc-toolkit: plaintext.py (word extraction, character   *)
(* n-grams, language filter, language model), vocabulary.py and            *)
(* measurements.py.                                                        *)
(*                                                                         *)
(* A Python str is a sequence of one-character strings.  The characters    *)
(* that cannot be written in a TLA+ string carry a name: "LF" is U+000A,   *)
(* "CR" is U+000D, "MIDDOT" is U+00B7, "HYPHENPOINT" is U+2027, "IDSPACE"  *)
(* is U+3000, "KATAKANADOT" is U+30FB, "HALFKATAKANADOT" is U+FF65,        *)
(* "RSQUO" is U+2019, "AMACRON" is U+0100, "amacron" is U+0101 and         *)
(* "EACUTE" is U+00E9.                                                     *)
(***************************************************************************)
EXTENDS Integers, Sequences, FiniteSets

VARIABLES pc,               \* position in the function under execution
          i,                \* loop index of the function under execution
          text,             \* get_natural_language_words, extract_char_ngrams: text
          nl_words,         \* get_natural_language_words: nl_words
          word_arg,         \* tokenize_word, is_valid_language_word: the argument word
          word,             \* tokenize_word: word, once padded
          ngram_size,       \* tokenize_word: ngram_size
          tokens,           \* tokenize_word: tokens
          language,         \* the language argument
          lines,            \* extract_char_ngrams: the lines still to process
          ngram_dict,       \* extract_char_ngrams: ngram_dict
          result,           \* is_valid_language_word: the value returned
          source,           \* build_unique: the lines of source still to read
          seen,             \* build_unique: seen
          output,           \* build_unique: the lines written to output
          words,            \* build_unique: the words of the line still to visit
          call,             \* measurements: the function called
          benchmark_lines,  \* measurements: the benchmark files, as pairs of lines
          aligned_lines,    \* measurements: the aligned files, as pairs of lines
          benchmark_pairs,  \* measurements: benchmark_pairs
          aligned_pairs,    \* measurements: aligned_pairs
          precision,        \* measurements: precision, a fraction <<num, den>>
          recall,           \* measurements: recall, a fraction <<num, den>>
          f1,               \* measurements: f1, a fraction <<num, den>>
          ngram_range,      \* build_language_model_ch: ngram_range
          ngram_freqs,      \* build_language_model_ch: ngram_freqs
          ngram_cnt_by_len  \* build_language_model_ch: ngram_cnt_by_len

wordsVars == <<text, nl_words>>
tokVars == <<word_arg, word, ngram_size, tokens>>
ngramVars == <<language, lines, ngram_dict>>
validVars == <<result>>
vocabVars == <<source, seen, output, words>>
scoreVars == <<call, benchmark_lines, aligned_lines, benchmark_pairs, aligned_pairs,
               precision, recall, f1>>
modelVars == <<ngram_range, ngram_freqs, ngram_cnt_by_len>>

vars == <<pc, i, wordsVars, tokVars, ngramVars, validVars, vocabVars, scoreVars,
          modelVars>>

\* the variables of a function that is not running
None == "None"
WordsIdle == text = <<>> /\ nl_words = <<>>
TokIdle == word_arg = <<>> /\ word = <<>> /\ ngram_size = 0 /\ tokens = <<>>
NgramIdle == language = "" /\ lines = <<>> /\ ngram_dict = <<>>
ValidIdle == result = None
VocabIdle == source = <<>> /\ seen = {} /\ output = <<>> /\ words = <<>>
ScoreIdle ==
    /\ call = None /\ benchmark_lines = <<>> /\ aligned_lines = <<>>
    /\ benchmark_pairs = <<>> /\ aligned_pairs = <<>>
    /\ precision = None /\ recall = None /\ f1 = None
ModelIdle == ngram_range = <<>> /\ ngram_freqs = <<>> /\ ngram_cnt_by_len = <<>>

(***************************************************************************)
(* Bounds of the input sets.                                               *)
(***************************************************************************)
MaxPieces == 5
MaxWordLen == 3
MaxNgramSize == 6
MaxLines == 3
MaxLineWords == 1
MaxPairs == 2
MaxRange == 4

(***************************************************************************)
(* Helpers on sequences.                                                   *)
(***************************************************************************)
SetMax(S) == CHOOSE x \in S : \A y \in S : y <= x

RECURSIVE Flatten(_)
Flatten(ss) == IF ss = <<>> THEN <<>> ELSE Head(ss) \o Flatten(Tail(ss))

\* every concatenation of at most n pieces of P
PieceTexts(P, n) == UNION {{Flatten(s) : s \in [1..m -> P]} : m \in 0..n}

(***************************************************************************)
(* Character classes of Python's re module (str patterns, Unicode).        *)
(***************************************************************************)
\* \s
IsWhitespace(c) == c \in {" ", "LF", "CR", "IDSPACE"}

\* \d
IsDigit(c) == c \in {"0", "1", "2"}

\* a letter: str.isalpha()
IsLetter(c) == c \in {"a", "b", "c", "d", "q", "t", "A", "B", "Q", "AMACRON", "amacron",
                       "EACUTE"}

\* \w
IsWordChar(c) == IsLetter(c) \/ IsDigit(c) \/ c = "_"

\* space_pattern_string: [\s·‧　・･]
space_pattern(c) ==
    IsWhitespace(c) \/ c \in {"MIDDOT", "HYPHENPOINT", "IDSPACE", "KATAKANADOT", "HALFKATAKANADOT"}

\* word_split_pattern_string, one repetition: ([^\W_]|[’'-])
word_split_char(c) == (IsWordChar(c) /\ c # "_") \/ c \in {"RSQUO", "'", "-"}

\* nl_word_pattern_string, one repetition: (?=[^\d_])[\w’'-]
nl_word_char(c) ==
    /\ ~IsDigit(c) /\ c # "_"
    /\ (IsWordChar(c) \/ c \in {"RSQUO", "'", "-"})

\* \b at position p of t (between t[p-1] and t[p], 1-based)
WordBoundary(t, p) ==
    LET before == p > 1 /\ IsWordChar(t[p - 1])
        after  == p <= Len(t) /\ IsWordChar(t[p])
    IN  before # after

\* the end (exclusive) of the match of word_split_pattern_string starting at
\* p, or p when there is none: \b, a greedy run of word_split_char, backed
\* off to the last position where \b holds
MatchEnd(t, p) ==
    LET ends == {e \in (p + 1)..(Len(t) + 1) :
                    /\ \A j \in p..(e - 1) : word_split_char(t[j])
                    /\ WordBoundary(t, e)}
    IN  IF WordBoundary(t, p) /\ ends # {} THEN SetMax(ends) ELSE p

\* re.findall(word_split_pattern_string, text), group 0 of each match
RECURSIVE FindAllFrom(_, _)
FindAllFrom(t, p) ==
    IF p > Len(t) THEN <<>>
    ELSE LET e == MatchEnd(t, p)
         IN  IF e > p THEN <<SubSeq(t, p, e - 1)>> \o FindAllFrom(t, e)
             ELSE FindAllFrom(t, p + 1)

FindAll(t) == FindAllFrom(t, 1)

\* re.fullmatch(nl_word_pattern_string, w, flags=re.IGNORECASE)
FullMatchNlWord(w) == Len(w) >= 1 /\ \A j \in 1..Len(w) : nl_word_char(w[j])

(***************************************************************************)
(* PlainText.get_natural_language_words                                    *)
(***************************************************************************)
\* the condition of line 27
UrlGuard(t) ==
    /\ ~\E j \in 1..Len(t) : space_pattern(t[j])
    /\ \E j \in 1..Len(t) : t[j] = "/"

\* the condition of lines 34-36
IsDropped(w) == Len(w) < 2 \/ ~FullMatchNlWord(w)

\* list.remove(v) deleting every equal element instead of the first
RemoveAllEqual(s, v) == SelectSeq(s, LAMBDA x : x # v)

\* list.remove(v): delete the first element equal to v
RemoveFirst(s, v) ==
    LET at == CHOOSE j \in 1..Len(s) : s[j] = v /\ \A h \in 1..(j - 1) : s[h] # v
    IN  SubSeq(s, 1, at - 1) \o SubSeq(s, at + 1, Len(s))

\* lines 33-37 as a function: the loop over reversed(range(len(nl_words)))
\* from index n (0-based) down to 0
RECURSIVE FilterLoop(_, _)
FilterLoop(ws, n) ==
    IF n < 0 \/ n >= Len(ws) THEN ws
    ELSE IF IsDropped(ws[n + 1]) THEN FilterLoop(RemoveFirst(ws, ws[n + 1]), n - 1)
         ELSE FilterLoop(ws, n - 1)

\* the whole function
get_natural_language_words(t) ==
    IF UrlGuard(t) THEN <<>>
    ELSE LET found == FindAll(t) IN FilterLoop(found, Len(found) - 1)

WordPieces == {<<"a">>, <<"a", "b">>, <<"1">>, <<" ">>, <<"/">>, <<"MIDDOT">>, <<"-">>}

wordsOthers == <<tokVars, ngramVars, validVars, vocabVars, scoreVars, modelVars>>

WordsInit ==
    /\ pc = "words_start"
    /\ text \in PieceTexts(WordPieces, MaxPieces)
    /\ nl_words = <<>>
    /\ i = 0
    /\ TokIdle /\ NgramIdle /\ ValidIdle /\ VocabIdle /\ ScoreIdle /\ ModelIdle

\* lines 27-28
ReturnEmptyForUrl ==
    /\ pc = "words_start"
    /\ UrlGuard(text)
    /\ pc' = "words_done"
    /\ nl_words' = <<>>
    /\ UNCHANGED <<text, i, wordsOthers>>

\* lines 30-33: the candidates, and the first index of the reversed range
FindCandidates ==
    /\ pc = "words_start"
    /\ ~UrlGuard(text)
    /\ nl_words' = FindAll(text)
    /\ i' = Len(FindAll(text)) - 1
    /\ pc' = "words_filter"
    /\ UNCHANGED <<text, wordsOthers>>

\* lines 34-37, one iteration; nl_words[i] raises IndexError when i is out
\* of range
FilterStep ==
    /\ pc = "words_filter"
    /\ i >= 0
    /\ IF i >= Len(nl_words)
       THEN pc' = "words_IndexError" /\ UNCHANGED <<nl_words, i>>
       ELSE /\ nl_words' = IF IsDropped(nl_words[i + 1])
                           THEN RemoveFirst(nl_words, nl_words[i + 1])
                           ELSE nl_words
            /\ i' = i - 1
            /\ pc' = pc
    /\ UNCHANGED <<text, wordsOthers>>

\* line 39
ReturnWords ==
    /\ pc = "words_filter"
    /\ i < 0
    /\ pc' = "words_done"
    /\ UNCHANGED <<text, nl_words, i, wordsOthers>>

WordsNext == ReturnEmptyForUrl \/ FindCandidates \/ FilterStep \/ ReturnWords

WordsSpec == WordsInit /\ [][WordsNext]_vars

ContainsDigit(w) == \E j \in 1..Len(w) : IsDigit(w[j])

ContainsSpace(t) == \E j \in 1..Len(t) : space_pattern(t[j])

Occurrences(s, v) == Cardinality({j \in 1..Len(s) : s[j] = v})

\* C1: get_natural_language_words returns the empty list for a text with no
\* whitespace character (U+00B7 and U+3000 included) that contains '/';
\* otherwise exactly the candidates of length >= 2 without a digit, in
\* their order, repeated words kept; the loop never indexes out of range.
C1_WordsFiltered ==
    /\ pc # "words_IndexError"
    /\ pc = "words_done" =>
          nl_words = IF ~ContainsSpace(text) /\ (\E j \in 1..Len(text) : text[j] = "/")
                     THEN <<>>
                     ELSE SelectSeq(FindAll(text),
                                    LAMBDA w : Len(w) >= 2 /\ ~ContainsDigit(w))

\* a finished run whose candidates hold the same dropped word on both sides
\* of a kept word
C1_Witness ==
    /\ pc = "words_done"
    /\ nl_words # <<>>
    /\ \E w \in {<<"a">>} : Occurrences(FindAll(text), w) >= 2
    /\ FindAll(text)[2] = nl_words[1]
(***************************************************************************)
(* PlainText.tokenize_word                                                 *)
(***************************************************************************)
Min(a, b) == IF a < b THEN a ELSE b

\* s[a:b] for 0 <= a, 0 <= b (0-based, b exclusive, clamped to the length)
Slice(s, a, b) == SubSeq(s, a + 1, Min(b, Len(s)))

\* str.strip()
Strip(s) ==
    LET kept == {j \in 1..Len(s) : ~IsWhitespace(s[j])}
    IN  IF kept = {} THEN <<>>
        ELSE SubSeq(s, CHOOSE j \in kept : \A h \in kept : j <= h, SetMax(kept))

\* line 51 with the trailing pad forgotten
PadLeftOnly(w) == <<" ">> \o w

\* line 51
Pad(w) == <<" ">> \o w \o <<" ">>

\* line 53 with the last window forgotten
WindowStopShort(w, n) == Len(w) - n

\* line 53: the stop of range(0, len(word) - ngram_size + 1)
WindowStop(w, n) == Len(w) - n + 1

\* lines 53-55 as a function, from window a (0-based) on
RECURSIVE WindowLoop(_, _, _)
WindowLoop(w, n, a) ==
    IF a >= WindowStop(w, n) THEN <<>>
    ELSE (IF Strip(Slice(w, a, a + n)) # <<>> THEN <<Slice(w, a, a + n)>> ELSE <<>>)
         \o WindowLoop(w, n, a + 1)

\* the whole function
tokenize_word(w, n) == WindowLoop(Pad(w), n, 0)

TokPieces == {<<"a">>, <<"b">>, <<" ">>}

tokOthers == <<wordsVars, ngramVars, validVars, vocabVars, scoreVars, modelVars>>

TokInit ==
    /\ pc = "tok_start"
    /\ i = 0
    /\ word_arg \in PieceTexts(TokPieces, MaxWordLen) \cup {<<"c", "a", "t">>}
    /\ word = word_arg
    /\ ngram_size \in 1..MaxNgramSize
    /\ tokens = <<>>
    /\ WordsIdle /\ NgramIdle /\ ValidIdle /\ VocabIdle /\ ScoreIdle /\ ModelIdle

\* lines 50-51
PadWord ==
    /\ pc = "tok_start"
    /\ tokens' = <<>>
    /\ word' = Pad(word)
    /\ i' = 0
    /\ pc' = "tok_loop"
    /\ UNCHANGED <<word_arg, ngram_size, tokOthers>>

\* lines 53-55, an iteration that appends the window
AppendWindow ==
    /\ pc = "tok_loop"
    /\ i < WindowStop(word, ngram_size)
    /\ Strip(Slice(word, i, i + ngram_size)) # <<>>
    /\ tokens' = Append(tokens, Slice(word, i, i + ngram_size))
    /\ i' = i + 1
    /\ UNCHANGED <<pc, word_arg, word, ngram_size, tokOthers>>

\* lines 53-54, an iteration over a window that strips to the empty string
SkipWindow ==
    /\ pc = "tok_loop"
    /\ i < WindowStop(word, ngram_size)
    /\ Strip(Slice(word, i, i + ngram_size)) = <<>>
    /\ i' = i + 1
    /\ UNCHANGED <<pc, word_arg, word, ngram_size, tokens, tokOthers>>

\* line 57
ReturnTokens ==
    /\ pc = "tok_loop"
    /\ i >= WindowStop(word, ngram_size)
    /\ pc' = "tok_done"
    /\ UNCHANGED <<i, tokVars, tokOthers>>

TokNext == PadWord \/ AppendWindow \/ SkipWindow \/ ReturnTokens

TokSpec == TokInit /\ [][TokNext]_vars

AllWhitespace(s) == \A j \in 1..Len(s) : IsWhitespace(s[j])

\* the windows padded[j:j+n] for j in 0..len(padded)-n, in order
Windows(padded, n) ==
    [j \in 1..(IF Len(padded) >= n THEN Len(padded) - n + 1 ELSE 0) |->
        SubSeq(padded, j, j + n - 1)]

\* C2: tokenize_word(w, n) returns, in increasing start position, the
\* windows of ' ' + w + ' ' of length n that are not entirely whitespace;
\* every n-gram has length n; n > len(w) + 2 gives the empty list;
\* tokenize_word('cat', 2) = [' c','ca','at','t '].
C2_TokensAreWindows ==
    pc = "tok_done" =>
        /\ tokens = SelectSeq(Windows(<<" ">> \o word_arg \o <<" ">>, ngram_size),
                              LAMBDA g : ~AllWhitespace(g))
        /\ \A j \in 1..Len(tokens) : Len(tokens[j]) = ngram_size
        /\ ngram_size > Len(word_arg) + 2 => tokens = <<>>
        /\ (word_arg = <<"c", "a", "t">> /\ ngram_size = 2) =>
               tokens = << <<" ", "c">>, <<"c", "a">>, <<"a", "t">>, <<"t", " ">> >>

\* 'cat' tokenized into 2-grams
C2_Witness ==
    /\ pc = "tok_done" /\ word_arg = <<"c", "a", "t">> /\ ngram_size = 2
    /\ Len(tokens) = 4

\* C3 as stated: for 1 <= n <= len(word) + 2 the number of n-grams is at
\* most len(word) + 2 - n.
C3_AsStated ==
    (pc = "tok_done" /\ ngram_size <= Len(word_arg) + 2) =>
        Len(tokens) <= Len(word_arg) + 2 - ngram_size

\* C3 amended: for 1 <= n <= len(word) + 2 the number of n-grams is at most
\* the number of windows, len(word) + 3 - n; for a non-empty word without
\* whitespace it is that number when n >= 2 and len(word) when n = 1 (the
\* two windows holding only a pad are dropped).
C3_CountAtMostWindows ==
    (pc = "tok_done" /\ ngram_size <= Len(word_arg) + 2) =>
        /\ Len(tokens) <= Len(word_arg) + 3 - ngram_size
        /\ (word_arg # <<>> /\ \A j \in 1..Len(word_arg) : ~IsWhitespace(word_arg[j])) =>
              Len(tokens) = IF ngram_size = 1 THEN Len(word_arg)
                            ELSE Len(word_arg) + 3 - ngram_size

\* a word without whitespace tokenized into 1-grams: the pads are dropped
C3_Witness ==
    /\ pc = "tok_done" /\ ngram_size = 1
    /\ word_arg = <<"a", "b", "a">> /\ Len(tokens) = 3
(***************************************************************************)
(* PlainText.is_valid_language_word, get_language_charset,                 *)
(* get_language_exclude_charset                                            *)
(***************************************************************************)
\* a character class is the set of the characters it matches; '' is {}
\* charset['lv'] = '[A-Za-zĀāČčĒēĢģĪīĶķĻļŅņŠšŪūŽž]'
get_language_charset(lang) ==
    IF lang = "lv"
    THEN {"a", "b", "c", "d", "q", "t", "w", "x", "y", "A", "B", "Q", "W", "X", "Y",
          "AMACRON", "amacron"}
    ELSE {}

\* charset['lv'] = '[QqWwXxYy]'
get_language_exclude_charset(lang) ==
    IF lang = "lv" THEN {"Q", "q", "W", "w", "X", "x", "Y", "y"} ELSE {}

\* line 107 without the test of the exclusion set
CharFailsInclusionOnly(c, valid_chars, invalid_chars) ==
    valid_chars # {} /\ c \notin valid_chars

\* the condition of line 107
CharFails(c, valid_chars, invalid_chars) ==
    \/ valid_chars # {} /\ c \notin valid_chars
    \/ invalid_chars # {} /\ c \in invalid_chars

\* the whole function
is_valid_language_word(w, lang) ==
    \A j \in 1..Len(Strip(w)) :
        ~CharFails(Strip(w)[j], get_language_charset(lang),
                   get_language_exclude_charset(lang))

ValidPieces == {<<"a">>, <<"q">>, <<"EACUTE">>, <<"AMACRON">>, <<" ">>}
Languages == {"lv", "en", ""}

validOthers == <<wordsVars, ngram_size, tokens, lines, ngram_dict, vocabVars, scoreVars,
                 modelVars>>

ValidInit ==
    /\ pc = "valid_start"
    /\ i = 0
    /\ word_arg \in PieceTexts(ValidPieces, MaxWordLen)
    /\ word = word_arg
    /\ language \in Languages
    /\ result = None
    /\ ngram_size = 0 /\ tokens = <<>> /\ lines = <<>> /\ ngram_dict = <<>>
    /\ WordsIdle /\ VocabIdle /\ ScoreIdle /\ ModelIdle

\* lines 103-106: the charsets are looked up and the loop starts on
\* word.strip()
StripWord ==
    /\ pc = "valid_start"
    /\ word' = Strip(word)
    /\ i' = 0
    /\ pc' = "valid_loop"
    /\ UNCHANGED <<word_arg, language, result, validOthers>>

\* lines 106-108, an iteration whose character fails
RejectChar ==
    /\ pc = "valid_loop"
    /\ i < Len(word)
    /\ CharFails(word[i + 1], get_language_charset(language),
                 get_language_exclude_charset(language))
    /\ result' = FALSE
    /\ pc' = "valid_done"
    /\ UNCHANGED <<i, word_arg, word, language, validOthers>>

\* lines 106-107, an iteration whose character passes
AcceptChar ==
    /\ pc = "valid_loop"
    /\ i < Len(word)
    /\ ~CharFails(word[i + 1], get_language_charset(language),
                  get_language_exclude_charset(language))
    /\ i' = i + 1
    /\ UNCHANGED <<pc, word_arg, word, language, result, validOthers>>

\* line 110
ReturnValid ==
    /\ pc = "valid_loop"
    /\ i >= Len(word)
    /\ result' = TRUE
    /\ pc' = "valid_done"
    /\ UNCHANGED <<i, word_arg, word, language, validOthers>>

ValidNext == StripWord \/ RejectChar \/ AcceptChar \/ ReturnValid

ValidSpec == ValidInit /\ [][ValidNext]_vars

RECURSIVE DropLeading(_)
DropLeading(s) == IF s # <<>> /\ IsWhitespace(Head(s)) THEN DropLeading(Tail(s)) ELSE s

RECURSIVE DropTrailing(_)
DropTrailing(s) ==
    IF s # <<>> /\ IsWhitespace(s[Len(s)]) THEN DropTrailing(SubSeq(s, 1, Len(s) - 1))
    ELSE s

\* the word without its leading and trailing whitespace
Trimmed(w) == DropTrailing(DropLeading(w))

\* C5: is_valid_language_word is True for every word of a language other
\* than 'lv'; for 'lv' it is True iff every character of the trimmed word
\* is in the inclusion set and not in the exclusion set.
C5_ValidIffAllCharsPass ==
    pc = "valid_done" =>
        result = IF language # "lv" THEN TRUE
                 ELSE \A j \in 1..Len(Trimmed(word_arg)) :
                          /\ Trimmed(word_arg)[j] \in get_language_charset("lv")
                          /\ Trimmed(word_arg)[j] \notin get_language_exclude_charset("lv")

\* an 'lv' word rejected for a character of the exclusion set alone, after
\* a character that passed
C5_Witness ==
    /\ pc = "valid_done" /\ language = "lv" /\ result = FALSE
    /\ word_arg = <<" ", "a", "q">>
(***************************************************************************)
(* PlainText.extract_char_ngrams                                           *)
(***************************************************************************)
\* whether sep occurs in t at position p (1-based)
OccursAt(t, sep, p) ==
    p + Len(sep) - 1 <= Len(t) /\ SubSeq(t, p, p + Len(sep) - 1) = sep

\* str.split(sep): the pieces of t between the occurrences of sep, found
\* from the left; start is where the current piece begins, p the scan
RECURSIVE SplitFrom(_, _, _, _)
SplitFrom(t, sep, start, p) ==
    IF p > Len(t) THEN <<SubSeq(t, start, Len(t))>>
    ELSE IF OccursAt(t, sep, p)
         THEN <<SubSeq(t, start, p - 1)>> \o SplitFrom(t, sep, p + Len(sep), p + Len(sep))
         ELSE SplitFrom(t, sep, start, p + 1)

StrSplit(t, sep) == SplitFrom(t, sep, 1, 1)

\* the argument of split on line 74: the four characters \r ? \n of a
\* plain (not raw, not regex) string literal
LineSeparator == <<"CR", "?", "LF">>

\* lines 85-88: one more occurrence of token in a dict of counts
CountToken(counts, token) ==
    [g \in DOMAIN counts \cup {token} |->
        IF g = token THEN (IF g \in DOMAIN counts THEN counts[g] + 1 ELSE 1)
        ELSE counts[g]]

\* lines 84-88
RECURSIVE CountTokens(_, _)
CountTokens(counts, toks) ==
    IF toks = <<>> THEN counts
    ELSE CountTokens(CountToken(counts, Head(toks)), Tail(toks))

\* lines 78-88 for one n-gram length n
RECURSIVE CountWords(_, _, _, _)
CountWords(counts, ws, n, lang) ==
    IF ws = <<>> THEN counts
    ELSE CountWords(IF is_valid_language_word(Head(ws), lang)
                    THEN CountTokens(counts, tokenize_word(Head(ws), n))
                    ELSE counts,
                    Tail(ws), n, lang)

\* lines 75-88: the body of the loop over the lines
CountLine(dict, line, lang) ==
    [n \in 1..4 |-> CountWords(dict[n], get_natural_language_words(line), n, lang)]

EmptyCounts == [g \in {} |-> 0]

NgramPieces == {<<"a", "b">>, <<"q", "a">>, <<" ">>, <<"/">>, <<"LF">>, <<"CR", "LF">>,
                LineSeparator}

ngramOthers == <<nl_words, tokVars, validVars, vocabVars, scoreVars, modelVars>>

NgramInit ==
    /\ pc = "ngrams_start"
    /\ i = 0
    /\ text \in PieceTexts(NgramPieces, MaxPieces)
    /\ language \in {"lv", "en"}
    /\ lines = <<>>
    /\ ngram_dict = <<>>
    /\ nl_words = <<>>
    /\ TokIdle /\ ValidIdle /\ VocabIdle /\ ScoreIdle /\ ModelIdle

\* lines 69-74
SplitText ==
    /\ pc = "ngrams_start"
    /\ ngram_dict' = [n \in 1..4 |-> EmptyCounts]
    /\ lines' = StrSplit(text, LineSeparator)
    /\ pc' = "ngrams_loop"
    /\ UNCHANGED <<i, text, language, ngramOthers>>

\* lines 74-88, one iteration of the loop over the lines
CountNextLine ==
    /\ pc = "ngrams_loop"
    /\ lines # <<>>
    /\ ngram_dict' = CountLine(ngram_dict, Head(lines), language)
    /\ lines' = Tail(lines)
    /\ UNCHANGED <<pc, i, text, language, ngramOthers>>

\* line 90
ReturnNgrams ==
    /\ pc = "ngrams_loop"
    /\ lines = <<>>
    /\ pc' = "ngrams_done"
    /\ UNCHANGED <<i, text, ngramVars, ngramOthers>>

NgramNext == SplitText \/ CountNextLine \/ ReturnNgrams

NgramSpec == NgramInit /\ [][NgramNext]_vars

\* the text split at its line breaks, \n or \r\n
RECURSIVE TextLinesFrom(_, _, _)
TextLinesFrom(t, start, p) ==
    IF p > Len(t) THEN <<SubSeq(t, start, Len(t))>>
    ELSE IF t[p] = "LF"
         THEN <<SubSeq(t, start, IF p > start /\ t[p - 1] = "CR" THEN p - 2 ELSE p - 1)>>
              \o TextLinesFrom(t, p + 1, p + 1)
         ELSE TextLinesFrom(t, start, p + 1)

TextLines(t) == TextLinesFrom(t, 1, 1)

RECURSIVE CountLines(_, _, _)
CountLines(dict, ls, lang) ==
    IF ls = <<>> THEN dict ELSE CountLines(CountLine(dict, Head(ls), lang), Tail(ls), lang)

LowerChar(c) ==
    CASE c = "A" -> "a"
      [] c = "B" -> "b"
      [] c = "Q" -> "q"
      [] c = "AMACRON" -> "amacron"
      [] OTHER -> c

\* str.lower()
Lower(s) == [j \in 1..Len(s) |-> LowerChar(s[j])]

\* line 21 with the test always passing
AlwaysUnseen(w, s) == TRUE

\* the condition of line 21
Unseen(w, s) == w \notin s

\* the words of a line joined by single spaces
RECURSIVE JoinWords(_)
JoinWords(ws) ==
    IF ws = <<>> THEN <<>>
    ELSE IF Len(ws) = 1 THEN Head(ws)
         ELSE Head(ws) \o <<" ">> \o JoinWords(Tail(ws))

VocabWords == {<<"a", "b">>, <<"A", "b">>, <<"b", "a">>}

\* the lines of a source file, each with its line break
VocabLines(n) ==
    {l \o <<"LF">> :
        l \in {JoinWords(ws) : ws \in UNION {[1..m -> VocabWords] : m \in 0..n}}
              \cup {<<"a", "b", "/", "b", "a">>, <<" ", "A", "b", "/", "a", "b", " ">>,
                    <<"A", "b", " ", "b", "a">>}}

vocabOthers == <<wordsVars, tokVars, ngramVars, validVars, scoreVars, modelVars>>

VocabInit ==
    /\ pc = "vocab_lines"
    /\ i = 0
    /\ source \in UNION {[1..m -> VocabLines(MaxLineWords)] : m \in 0..MaxLines}
    /\ seen = {}
    /\ output = <<>>
    /\ words = <<>>
    /\ WordsIdle /\ TokIdle /\ NgramIdle /\ ValidIdle /\ ScoreIdle /\ ModelIdle

\* lines 12-17: the next line is read (i counts the lines read), stripped,
\* lowercased and split into words
ReadLine ==
    /\ pc = "vocab_lines"
    /\ i < Len(source)
    /\ words' = get_natural_language_words(Lower(Strip(source[i + 1])))
    /\ i' = i + 1
    /\ pc' = "vocab_words"
    /\ UNCHANGED <<source, seen, output, vocabOthers>>

\* lines 18-23, an iteration that writes the word
WriteWord ==
    /\ pc = "vocab_words"
    /\ words # <<>>
    /\ Unseen(Lower(Head(words)), seen)
    /\ output' = Append(output, Lower(Head(words)) \o <<"LF">>)
    /\ seen' = seen \cup {Lower(Head(words))}
    /\ words' = Tail(words)
    /\ UNCHANGED <<pc, i, source, vocabOthers>>

\* lines 18-21, an iteration over a word already seen
SkipWord ==
    /\ pc = "vocab_words"
    /\ words # <<>>
    /\ ~Unseen(Lower(Head(words)), seen)
    /\ words' = Tail(words)
    /\ UNCHANGED <<pc, i, source, seen, output, vocabOthers>>

\* line 18: the words of the line are exhausted
EndLine ==
    /\ pc = "vocab_words"
    /\ words = <<>>
    /\ pc' = "vocab_lines"
    /\ UNCHANGED <<i, vocabVars, vocabOthers>>

\* line 12: the source is exhausted and the files are closed
CloseFiles ==
    /\ pc = "vocab_lines"
    /\ i >= Len(source)
    /\ pc' = "vocab_done"
    /\ UNCHANGED <<i, vocabVars, vocabOthers>>

VocabNext == ReadLine \/ WriteWord \/ SkipWord \/ EndLine \/ CloseFiles

VocabSpec == VocabInit /\ [][VocabNext]_vars

\* the lowercased natural-language words of the first n lines, in order
RECURSIVE LowerWordsOf(_, _)
LowerWordsOf(src, n) ==
    IF n = 0 THEN <<>>
    ELSE LET ws == get_natural_language_words(Strip(src[n]))
         IN  LowerWordsOf(src, n - 1) \o [j \in 1..Len(ws) |-> Lower(ws[j])]

\* s without the elements that occurred before
FirstOccurrences(s) ==
    SelectSeq([j \in 1..Len(s) |-> <<s[j], \A h \in 1..(j - 1) : s[h] # s[j]>>],
              LAMBDA e : e[2])

\* C6: build_unique writes each lowercased natural-language word of the
\* input once, one per line, in order of first occurrence; after any prefix
\* of the lines the output has no duplicate line and seen is the set of the
\* words written.
C6_UniqueInFirstSeenOrder ==
    /\ \A j, h \in 1..Len(output) : output[j] = output[h] => j = h
    /\ seen = {SubSeq(output[j], 1, Len(output[j]) - 1) : j \in 1..Len(output)}
    /\ \A j \in 1..Len(output) : output[j][Len(output[j])] = "LF"
    /\ pc = "vocab_lines" =>
          LET expected == FirstOccurrences(LowerWordsOf(source, i))
          IN  output = [j \in 1..Len(expected) |-> expected[j][1] \o <<"LF">>]

\* a finished run in which a word came back in another case on a later
\* line and was written once
C6_Witness ==
    /\ pc = "vocab_done"
    /\ source = << <<"A", "b", " ", "b", "a", "LF">>, <<"a", "b", "LF">> >>
    /\ output = << <<"a", "b", "LF">>, <<"b", "a", "LF">> >>
(***************************************************************************)
(* measurements: load_sentence_pairs, calculate_precision,                 *)
(* calculate_recall, calculate_f1, do_all                                  *)
(*                                                                         *)
(* A dict is the sequence of its <<key, value>> items in insertion order.  *)
(* A float is the fraction <<numerator, denominator>> it is the quotient   *)
(* of; true division rounds monotonically, so an order between two         *)
(* fractions is the order between the floats.  A sentence is a stripped    *)
(* line.                                                                   *)
(***************************************************************************)
Keys(d) == {d[j][1] : j \in 1..Len(d)}

Values(d) == {d[j][2] : j \in 1..Len(d)}

\* d[k], for k in Keys(d)
Lookup(d, k) == d[CHOOSE j \in 1..Len(d) : d[j][1] = k][2]

\* d[k] = v
DictSet(d, k, v) ==
    IF k \in Keys(d) THEN [j \in 1..Len(d) |-> IF d[j][1] = k THEN <<k, v>> ELSE d[j]]
    ELSE Append(d, <<k, v>>)

\* lines 16-21: the zipped lines, from the first
RECURSIVE LoadFrom(_, _)
LoadFrom(d, ls) ==
    IF ls = <<>> THEN d ELSE LoadFrom(DictSet(d, Head(ls)[1], Head(ls)[2]), Tail(ls))

load_sentence_pairs(ls) == LoadFrom(<<>>, ls)

\* lines 38-44 counting an entry of the benchmark only when it is correct
CountsOnlyWhenCorrect(src, trg, ap) ==
    IF src \in Keys(ap) /\ trg = Lookup(ap, src) THEN 1 ELSE 0

\* lines 38-44 with the elif an if: an entry may count twice
CountsSourceAndTarget(src, trg, ap) ==
    (IF src \in Keys(ap) THEN 1 ELSE 0) + (IF trg \in Values(ap) THEN 1 ELSE 0)

\* lines 38-39 and 43-44: what one entry of the benchmark adds to
\* aligned_from_benchmark
CountsAsAligned(src, trg, ap) ==
    IF src \in Keys(ap) THEN 1
    ELSE IF trg \in Values(ap) THEN 1 ELSE 0

\* lines 38-42 and lines 60-61: what one entry adds to aligned_correctly
CountsAsCorrect(src, trg, ap) ==
    IF src \in Keys(ap) /\ trg = Lookup(ap, src) THEN 1 ELSE 0

\* lines 34-44: aligned_from_benchmark after the loop over the first n items
RECURSIVE AlignedFromBenchmark(_, _, _)
AlignedFromBenchmark(bp, ap, n) ==
    IF n = 0 THEN 0
    ELSE AlignedFromBenchmark(bp, ap, n - 1) + CountsAsAligned(bp[n][1], bp[n][2], ap)

\* lines 35-42 and 57-61: aligned_correctly after the loop over the first n
\* items
RECURSIVE AlignedCorrectly(_, _, _)
AlignedCorrectly(bp, ap, n) ==
    IF n = 0 THEN 0
    ELSE AlignedCorrectly(bp, ap, n - 1) + CountsAsCorrect(bp[n][1], bp[n][2], ap)

\* a fraction equal to 0
IsZero(x) == x[1] = 0

\* lines 74-77: 2pr / (p + r) for p = a/b and r = c/d is 2ac / (ad + cb)
calculate_f1(p, r) ==
    IF IsZero(p) \/ IsZero(r) THEN <<0, 1>>
    ELSE <<2 * p[1] * r[1], p[1] * r[2] + r[1] * p[2]>>

SrcSentences == {"a", "b", "c"}
TrgSentences == {"x", "y", "z"}
\* every file pair of at most n zipped lines
PairFiles(n) == UNION {[1..m -> SrcSentences \X TrgSentences] : m \in 0..n}

scoreOthers == <<wordsVars, tokVars, ngramVars, validVars, vocabVars, modelVars>>

ScoreInit ==
    /\ pc = "score_load"
    /\ i = 0
    /\ call \in {"calculate_precision", "calculate_recall", "do_all"}
    /\ benchmark_lines \in PairFiles(MaxPairs)
    /\ aligned_lines \in PairFiles(MaxPairs)
    /\ benchmark_pairs = <<>>
    /\ aligned_pairs = <<>>
    /\ precision = None /\ recall = None /\ f1 = None
    /\ WordsIdle /\ TokIdle /\ NgramIdle /\ ValidIdle /\ VocabIdle /\ ModelIdle

\* lines 88-89: the two dicts are loaded, and the function is entered
LoadPairs ==
    /\ pc = "score_load"
    /\ benchmark_pairs' = load_sentence_pairs(benchmark_lines)
    /\ aligned_pairs' = load_sentence_pairs(aligned_lines)
    /\ pc' = IF call = "calculate_recall" THEN "score_recall" ELSE "score_precision"
    /\ UNCHANGED <<i, call, benchmark_lines, aligned_lines, precision, recall, f1,
                   scoreOthers>>

\* lines 34-46, and line 91 in do_all: the quotient is returned
ReturnPrecision ==
    /\ pc = "score_precision"
    /\ AlignedFromBenchmark(benchmark_pairs, aligned_pairs, Len(benchmark_pairs)) # 0
    /\ precision' =
          <<AlignedCorrectly(benchmark_pairs, aligned_pairs, Len(benchmark_pairs)),
            AlignedFromBenchmark(benchmark_pairs, aligned_pairs, Len(benchmark_pairs))>>
    /\ pc' = IF call = "do_all" THEN "score_recall" ELSE "score_done"
    /\ UNCHANGED <<i, call, benchmark_lines, aligned_lines, benchmark_pairs,
                   aligned_pairs, recall, f1, scoreOthers>>

\* line 46 with aligned_from_benchmark = 0: the division raises
\* ZeroDivisionError, which nothing catches
PrecisionDividesByZero ==
    /\ pc = "score_precision"
    /\ AlignedFromBenchmark(benchmark_pairs, aligned_pairs, Len(benchmark_pairs)) = 0
    /\ pc' = "score_ZeroDivisionError"
    /\ UNCHANGED <<i, scoreVars, scoreOthers>>

\* lines 57-63, and line 94 in do_all: the quotient is returned
ReturnRecall ==
    /\ pc = "score_recall"
    /\ Len(benchmark_pairs) # 0
    /\ recall' =
          <<AlignedCorrectly(benchmark_pairs, aligned_pairs, Len(benchmark_pairs)),
            Len(benchmark_pairs)>>
    /\ pc' = IF call = "do_all" THEN "score_f1" ELSE "score_done"
    /\ UNCHANGED <<i, call, benchmark_lines, aligned_lines, benchmark_pairs,
                   aligned_pairs, precision, f1, scoreOthers>>

\* line 63 with an empty benchmark: the division raises ZeroDivisionError
RecallDividesByZero ==
    /\ pc = "score_recall"
    /\ Len(benchmark_pairs) = 0
    /\ pc' = "score_ZeroDivisionError"
    /\ UNCHANGED <<i, scoreVars, scoreOthers>>

\* line 97
ReturnF1 ==
    /\ pc = "score_f1"
    /\ f1' = calculate_f1(precision, recall)
    /\ pc' = "score_done"
    /\ UNCHANGED <<i, call, benchmark_lines, aligned_lines, benchmark_pairs,
                   aligned_pairs, precision, recall, scoreOthers>>

ScoreNext ==
    \/ LoadPairs
    \/ ReturnPrecision
    \/ PrecisionDividesByZero
    \/ ReturnRecall
    \/ RecallDividesByZero
    \/ ReturnF1

ScoreSpec == ScoreInit /\ [][ScoreNext]_vars

BenchmarkOfC7 == << <<"a", "x">>, <<"b", "y">> >>
AlignedOfC7 == << <<"a", "x">>, <<"b", "z">> >>

\* C7 as stated: for benchmark {a: x, b: y} and aligned {a: x, b: z},
\* precision is 1.0 and recall is 0.5.
C7_AsStated ==
    (pc = "score_done" /\ benchmark_pairs = BenchmarkOfC7 /\ aligned_pairs = AlignedOfC7) =>
        /\ precision # None => precision[1] = precision[2]
        /\ recall # None => 2 * recall[1] = recall[2]

\* C7 amended: for benchmark {a: x, b: y} and aligned {a: x, b: z},
\* precision is 0.5 and recall is 0.5.
C7_BothOneHalf ==
    (pc = "score_done" /\ benchmark_pairs = BenchmarkOfC7 /\ aligned_pairs = AlignedOfC7) =>
        /\ call \in {"calculate_precision", "do_all"} =>
              precision # None /\ 2 * precision[1] = precision[2]
        /\ call \in {"calculate_recall", "do_all"} =>
              recall # None /\ 2 * recall[1] = recall[2]

\* do_all finished on the pairs of C7
C7_Witness ==
    /\ pc = "score_done" /\ call = "do_all"
    /\ benchmark_pairs = BenchmarkOfC7 /\ aligned_pairs = AlignedOfC7
    /\ precision = <<1, 2>> /\ recall = <<1, 2>>

\* C8: no division by zero escapes the scorer: an empty benchmark ends the
\* recall calculation in EmptyBenchmark, and a benchmark with no entry
\* counted as aligned ends the precision calculation in NoOverlap.
C8_NoRawFault ==
    /\ pc # "score_ZeroDivisionError"
    /\ (pc \notin {"score_load", "score_recall"} /\ call = "calculate_recall"
            /\ benchmark_pairs = <<>>) => pc = "score_EmptyBenchmark"
    /\ (pc \notin {"score_load", "score_precision"} /\ call # "calculate_recall"
            /\ AlignedFromBenchmark(benchmark_pairs, aligned_pairs,
                                    Len(benchmark_pairs)) = 0) => pc = "score_NoOverlap"

\* C10: when both scores are defined, 0 <= recall <= precision <= 1, the
\* numerators are equal and the denominator of precision is at most the
\* size of the benchmark.
C10_RecallAtMostPrecision ==
    (precision # None /\ recall # None) =>
        /\ precision[1] = recall[1]
        /\ precision[2] <= Len(benchmark_pairs)
        /\ recall[2] > 0 /\ precision[2] > 0
        /\ 0 <= recall[1]
        /\ recall[1] * precision[2] <= precision[1] * recall[2]
        /\ precision[1] <= precision[2]

\* both scores defined with an entry whose source is no aligned key and
\* whose target is an aligned value
C10_Witness ==
    /\ precision # None /\ recall # None
    /\ \E j \in 1..Len(benchmark_pairs) :
          /\ benchmark_pairs[j][1] \notin Keys(aligned_pairs)
          /\ benchmark_pairs[j][2] \in Values(aligned_pairs)
    /\ 0 < recall[1] /\ precision[1] < precision[2]
(***************************************************************************)
(* PlainText.build_language_model_ch                                       *)
(***************************************************************************)
\* runs of whitespace replaced by one space (the 'char' analyzer)
RECURSIVE CollapseWhitespace(_)
CollapseWhitespace(s) ==
    IF s = <<>> THEN <<>>
    ELSE IF IsWhitespace(Head(s))
         THEN IF Len(s) >= 2 /\ IsWhitespace(s[2]) THEN CollapseWhitespace(Tail(s))
              ELSE <<" ">> \o CollapseWhitespace(Tail(s))
         ELSE <<Head(s)>> \o CollapseWhitespace(Tail(s))

\* the character n-grams of one document, n from lo to hi
RECURSIVE CharNgrams(_, _, _)
CharNgrams(doc, lo, hi) ==
    IF lo > hi THEN <<>>
    ELSE [j \in 1..(IF Len(doc) >= lo THEN Len(doc) - lo + 1 ELSE 0) |->
             SubSeq(doc, j, j + lo - 1)]
         \o CharNgrams(doc, lo + 1, hi)

\* line 165, then lines 167-171: the counts of the n-grams of every
\* stripped line
RECURSIVE VectorizerCounts(_, _, _, _)
VectorizerCounts(counts, docs, lo, hi) ==
    IF docs = <<>> THEN counts
    ELSE VectorizerCounts(
             CountTokens(counts, CharNgrams(CollapseWhitespace(Lower(Strip(Head(docs)))),
                                            lo, hi)),
             Tail(docs), lo, hi)

\* the order of the characters
CharRank(c) == CASE c = " " -> 0 [] c = "a" -> 1 [] c = "b" -> 2 [] OTHER -> 3

\* s sorts before t
RECURSIVE LexLess(_, _)
LexLess(s, t) ==
    IF t = <<>> THEN FALSE
    ELSE IF s = <<>> THEN TRUE
         ELSE IF Head(s) = Head(t) THEN LexLess(Tail(s), Tail(t))
              ELSE CharRank(Head(s)) < CharRank(Head(t))

\* get_feature_names(): the labels in sorted order
RECURSIVE SortedLabels(_)
SortedLabels(S) ==
    IF S = {} THEN <<>>
    ELSE LET least == CHOOSE x \in S : \A y \in S \ {x} : LexLess(x, y)
         IN  <<least>> \o SortedLabels(S \ {least})

\* line 172: the items of ngram_freqs, the labels that strip to '' left out
NgramFreqs(counts) ==
    LET labels == SelectSeq(SortedLabels(DOMAIN counts), LAMBDA g : Strip(g) # <<>>)
    IN  [j \in 1..Len(labels) |-> <<labels[j], counts[labels[j]]>>]

\* line 183: the index the tally adds the frequency at
TallyIndex(ngram, range) == Len(ngram) - 1

ModelPieces == {<<"a">>, <<"b">>, <<" ">>, <<"LF">>}

modelOthers == <<nl_words, tokVars, ngramVars, validVars, vocabVars, scoreVars>>

ModelInit ==
    /\ pc = "model_start"
    /\ i = 0
    /\ text \in PieceTexts(ModelPieces, MaxPieces)
    /\ ngram_range \in {r \in (1..MaxRange) \X (1..MaxRange) : r[1] <= r[2]}
    /\ ngram_freqs = <<>>
    /\ ngram_cnt_by_len = <<>>
    /\ nl_words = <<>>
    /\ TokIdle /\ NgramIdle /\ ValidIdle /\ VocabIdle /\ ScoreIdle

\* lines 164-174
VectorizeText ==
    /\ pc = "model_start"
    /\ ngram_freqs' = NgramFreqs(VectorizerCounts(EmptyCounts, TextLines(text),
                                                  ngram_range[1], ngram_range[2]))
    /\ pc' = "model_counters"
    /\ UNCHANGED <<i, text, ngram_range, ngram_cnt_by_len, modelOthers>>

\* lines 176-180: one zero per size of the range
AppendCounters ==
    /\ pc = "model_counters"
    /\ ngram_cnt_by_len' = [j \in 1..(ngram_range[2] - ngram_range[1] + 1) |-> 0]
    /\ i' = 0
    /\ pc' = "model_tally"
    /\ UNCHANGED <<text, ngram_range, ngram_freqs, modelOthers>>

\* lines 182-183, one iteration; an index past the end raises IndexError
TallyNgram ==
    /\ pc = "model_tally"
    /\ i < Len(ngram_freqs)
    /\ LET at == TallyIndex(ngram_freqs[i + 1][1], ngram_range)
       IN  IF at >= Len(ngram_cnt_by_len)
           THEN pc' = "model_IndexError" /\ UNCHANGED <<i, ngram_cnt_by_len>>
           ELSE /\ ngram_cnt_by_len' =
                      [ngram_cnt_by_len EXCEPT ![at + 1] = @ + ngram_freqs[i + 1][2]]
                /\ i' = i + 1
                /\ pc' = pc
    /\ UNCHANGED <<text, ngram_range, ngram_freqs, modelOthers>>

\* lines 185-189
WriteModel ==
    /\ pc = "model_tally"
    /\ i >= Len(ngram_freqs)
    /\ pc' = "model_done"
    /\ UNCHANGED <<i, text, modelVars, modelOthers>>

ModelNext == VectorizeText \/ AppendCounters \/ TallyNgram \/ WriteModel

ModelSpec == ModelInit /\ [][ModelNext]_vars

\* the total frequency of the items whose n-gram has length n
RECURSIVE TotalOfLength(_, _)
TotalOfLength(items, n) ==
    IF items = <<>> THEN 0
    ELSE (IF Len(Head(items)[1]) = n THEN Head(items)[2] ELSE 0)
         + TotalOfLength(Tail(items), n)

\* C9: for every range (lo, hi) with 1 <= lo <= hi, n_words has
\* hi - lo + 1 entries, entry k being the total frequency of the kept
\* n-grams of length lo + k, and the tally never indexes outside the list.
C9_CountsPerLength ==
    /\ pc # "model_IndexError"
    /\ pc = "model_done" =>
          /\ Len(ngram_cnt_by_len) = ngram_range[2] - ngram_range[1] + 1
          /\ \A k \in 0..(Len(ngram_cnt_by_len) - 1) :
                ngram_cnt_by_len[k + 1] = TotalOfLength(ngram_freqs, ngram_range[1] + k)
====
